---------------------------- MODULE Spec2Model ----------------------------
(***************************************************************************)
(* PhoneSensors: the streaming frame parser (parsers.py), the columnar     *)
(* sensor containers (containers.py) and the stream client (client.py).   *)
(*                                                                         *)
(* Text is a sequence of one-character strings.  The stream alphabet is    *)
(*   "\n"  the line terminator,                                            *)
(*   "{" "}"  the braces of a JSON object,                                 *)
(*   "1" "2"  decimal digits (a line of digits is a valid JSON number),    *)
(*   member characters ("A0", "L", ...) each standing for one complete     *)
(*   member of a frame, e.g. "L" for  "light":{"value":6} .                *)
(***************************************************************************)
EXTENDS Integers, Sequences, FiniteSets, TLC

\* ------------------------------------------------------------------ bounds
MaxLen == 4
MaxFrames == 2
MaxCloses == 2
MaxNexts == 3
MaxRows == 2
MaxOps == 2
MaxLines == 3

\* ---------------------------------------------------------------- alphabet
LF == "\n"
LBrace == "{"
RBrace == "}"
Digits == {"1", "2"}

\* numpy floats: nan is a value of its own, unequal to every number
NaN == [isnan |-> TRUE, num |-> 0]
F(x) == [isnan |-> FALSE, num |-> x]
isnan(x) == x.isnan
\* A "value" as json decodes it: a number, or a list of numbers.
Sca(x) == [scalar |-> TRUE, xs |-> <<x>>]
Vec(xs) == [scalar |-> FALSE, xs |-> xs]
V3(x) == Vec(<<F(x), F(x), F(x)>>)
S1(x) == Sca(F(x))

\* The members a frame of the SensorStreamer app can carry: the JSON field
\* name, its "value" and its optional "timestamp".
Member(c) ==
    CASE c = "A0" -> [name |-> "accelerometer", value |-> V3(0), has_ts |-> TRUE, timestamp |-> F(0)]
      [] c = "A1" -> [name |-> "accelerometer", value |-> V3(1), has_ts |-> TRUE, timestamp |-> F(1)]
      [] c = "A2" -> [name |-> "accelerometer", value |-> V3(2), has_ts |-> TRUE, timestamp |-> F(2)]
      [] c = "G" -> [name |-> "gravity", value |-> V3(1), has_ts |-> FALSE, timestamp |-> NaN]
      [] c = "N" -> [name |-> "linearAcceleration", value |-> V3(2), has_ts |-> FALSE, timestamp |-> NaN]
      [] c = "M" -> [name |-> "magneticField", value |-> V3(3), has_ts |-> FALSE, timestamp |-> NaN]
      [] c = "Y" -> [name |-> "gyroscope", value |-> V3(4), has_ts |-> FALSE, timestamp |-> NaN]
      [] c = "R" -> [name |-> "rotationVector", value |-> V3(5), has_ts |-> FALSE, timestamp |-> NaN]
      [] c = "L" -> [name |-> "light", value |-> S1(6), has_ts |-> FALSE, timestamp |-> NaN]
      [] c = "P" -> [name |-> "pressure", value |-> S1(7), has_ts |-> FALSE, timestamp |-> NaN]
      [] c = "T" -> [name |-> "ambientTemperature", value |-> S1(8), has_ts |-> FALSE, timestamp |-> NaN]
      [] c = "X" -> [name |-> "proximity", value |-> S1(9), has_ts |-> TRUE, timestamp |-> F(3)]
      [] c = "H" -> [name |-> "relativeHumidity", value |-> S1(10), has_ts |-> FALSE, timestamp |-> NaN]

MemberChars == {"A0", "A1", "A2", "G", "N", "M", "Y", "R", "L", "P", "T", "X", "H"}

\* ------------------------------------------------------------ text helpers
Last(s) == s[Len(s)]
Front(s) == SubSeq(s, 1, Len(s) - 1)

\* All texts over alphabet S of length at most n.
RECURSIVE TextsUpTo(_, _)
TextsUpTo(S, n) ==
    IF n = 0 THEN {<<>>}
    ELSE LET shorter == TextsUpTo(S, n - 1)
         IN  shorter \cup {Append(t, c) : t \in {u \in shorter : Len(u) = n - 1}, c \in S}

\* str.split(sep): the segments between the separators; one more segment than
\* there are separators, so never an empty list.
RECURSIVE SplitFrom(_, _, _)
SplitFrom(s, sep, cur) ==
    IF s = <<>> THEN <<cur>>
    ELSE IF Head(s) = sep THEN <<cur>> \o SplitFrom(Tail(s), sep, <<>>)
    ELSE SplitFrom(Tail(s), sep, Append(cur, Head(s)))

\* Faulty variant (the behaviour of str.splitlines): a text that ends with
\* the separator yields no empty last segment.
split_DropsEmptyTail(s, sep) ==
    LET r == SplitFrom(s, sep, <<>>)
    IN  IF Len(r) > 1 /\ Last(r) = <<>> THEN Front(r) ELSE r

split(s, sep) == SplitFrom(s, sep, <<>>)

\* ------------------------------------------------------------- json.loads
\* The value of a line of digits.
RECURSIVE IntOf(_)
IntOf(line) ==
    IF line = <<>> THEN 0
    ELSE 10 * IntOf(Front(line)) + (IF Last(line) = "1" THEN 1 ELSE 2)

IsNumberText(line) == line # <<>> /\ \A i \in 1..Len(line) : line[i] \in Digits

IsObjectText(line) ==
    /\ Len(line) >= 2
    /\ line[1] = LBrace
    /\ Last(line) = RBrace
    /\ \A i \in 2..(Len(line) - 1) : line[i] \in MemberChars

\* The dict of an object text: a later member replaces an earlier one of the
\* same name.
ObjectOf(line) ==
    LET idx == 2..(Len(line) - 1)
        names == {Member(line[i]).name : i \in idx}
        lastOf(nm) == CHOOSE i \in idx :
                          /\ Member(line[i]).name = nm
                          /\ \A j \in idx : Member(line[j]).name = nm => j <= i
    IN  [nm \in names |-> Member(line[lastOf(nm)])]

\* json.loads(line): [ok |-> FALSE] stands for json.JSONDecodeError.
JsonNothing == [type |-> "none", val |-> 0, members |-> <<>>]

json_loads(line) ==
    IF IsNumberText(line)
    THEN [ok |-> TRUE, v |-> [type |-> "int", val |-> IntOf(line), members |-> <<>>]]
    ELSE IF IsObjectText(line)
    THEN [ok |-> TRUE, v |-> [type |-> "dict", val |-> 0, members |-> ObjectOf(line)]]
    ELSE [ok |-> FALSE, v |-> JsonNothing]

\* ------------------------------------------------------------- containers
\* SensorData.__init__: n_entries rows, all nan.  A row is kept as a sequence
\* of `elements` floats; with elements = 1 the numpy array is one-dimensional
\* (shape (n_entries,)), which is what clean() below depends on.
SensorData(n_entries, elements, source) ==
    [source |-> source,
     elements |-> elements,
     timestamps |-> [i \in 1..n_entries |-> NaN],
     values |-> [i \in 1..n_entries |-> [j \in 1..elements |-> NaN]]]

length(sd) == Len(sd.values)

\* numpy's assignment of `value` to one row of `elements` columns
\* (broadcasting); [ok |-> FALSE] stands for ValueError.
RowOf(value, elements) ==
    IF value.scalar \/ Len(value.xs) = 1
    THEN [ok |-> TRUE, row |-> [j \in 1..elements |-> value.xs[1]]]
    ELSE IF Len(value.xs) = elements
    THEN [ok |-> TRUE, row |-> value.xs]
    ELSE [ok |-> FALSE, row |-> <<>>]

\* SensorData.set(value, timestamp, n): n is a Python index (0-based, a
\* negative n counts from the end); the timestamp is written first.
PyIndex(n, len) == IF n >= 0 THEN n + 1 ELSE len + n + 1

SensorData_set(sd, value, timestamp, n) ==
    LET i == PyIndex(n, Len(sd.timestamps))
        r == RowOf(value, sd.elements)
    IN  IF i < 1 \/ i > Len(sd.timestamps)
        THEN [exc |-> "IndexError", sd |-> sd]
        ELSE IF ~r.ok
        THEN [exc |-> "ValueError", sd |-> [sd EXCEPT !.timestamps[i] = timestamp]]
        ELSE [exc |-> "none",
              sd |-> [sd EXCEPT !.timestamps[i] = timestamp, !.values[i] = r.row]]

\* a[mask] for a boolean mask of the same length
RECURSIVE Masked(_, _)
Masked(a, mask) ==
    IF a = <<>> THEN <<>>
    ELSE (IF Head(mask) THEN <<Head(a)>> ELSE <<>>) \o Masked(Tail(a), Tail(mask))

RowHasNan(row) == \E j \in 1..Len(row) : isnan(row[j])

\* nanmask = np.atleast_1d(~np.any(np.isnan(self._values), axis=-1)):
\* for a two-dimensional array one flag per row; for a one-dimensional array
\* (elements = 1) np.any reduces the only axis, so the mask has ONE flag.
nanmask(sd) ==
    IF sd.elements > 1
    THEN [i \in 1..Len(sd.values) |-> ~RowHasNan(sd.values[i])]
    ELSE <<~(\E i \in 1..Len(sd.values) : isnan(sd.values[i][1]))>>

\* Faulty variant: only the values are compacted.
SensorData_clean_ValuesOnly(sd) ==
    LET m == nanmask(sd)
    IN  IF Len(m) # Len(sd.values)
        THEN [exc |-> "IndexError", sd |-> sd]
        ELSE [exc |-> "none", sd |-> [sd EXCEPT !.values = Masked(sd.values, m)]]

\* SensorData.clean(): a boolean index whose length differs from the array's
\* is numpy's IndexError, raised before either array is replaced.
SensorData_clean(sd) ==
    LET m == nanmask(sd)
    IN  IF Len(m) # Len(sd.values)
        THEN [exc |-> "IndexError", sd |-> sd]
        ELSE [exc |-> "none",
              sd |-> [sd EXCEPT !.values = Masked(sd.values, m),
                                !.timestamps = Masked(sd.timestamps, m)]]

\* SensorDataCollection.__init__: one SensorData per source.
Channels == {"acc", "grav_acc", "lin_acc", "mag", "omega", "rot",
             "light", "temp", "pressure", "prox", "hum"}

Elements(ch) == IF ch \in {"acc", "grav_acc", "lin_acc", "mag", "omega", "rot"} THEN 3 ELSE 1

Source(ch) ==
    CASE ch = "acc" -> "ACCELERATION"
      [] ch = "grav_acc" -> "GRAV_ACCELERATION"
      [] ch = "lin_acc" -> "LIN_ACCELERATION"
      [] ch = "mag" -> "MAGNETIC_FIELD"
      [] ch = "omega" -> "ROT_VELOCITY"
      [] ch = "rot" -> "ROTATION_VECTOR"
      [] ch = "light" -> "LIGHT"
      [] ch = "temp" -> "AMBIENT_TEMPERATURE"
      [] ch = "pressure" -> "PRESSURE"
      [] ch = "prox" -> "PROXIMITY"
      [] ch = "hum" -> "RELATIVE_HUMIDITY"

SensorDataCollection(n_entries) ==
    [ch \in Channels |-> SensorData(n_entries, Elements(ch), Source(ch))]

\* self._all, in the order of the source (self.prox is not in the list)
all_ == <<"acc", "grav_acc", "lin_acc", "mag", "omega", "rot", "light", "temp",
         "pressure", "hum">>

\* SensorDataCollection.clean(): clean every member of _all in order; the
\* first exception ends the loop.
RECURSIVE CleanFrom(_, _)
CleanFrom(data, k) ==
    IF k > Len(all_) THEN [exc |-> "none", data |-> data]
    ELSE LET r == SensorData_clean(data[all_[k]])
         IN  IF r.exc # "none" THEN [exc |-> r.exc, data |-> data]
             ELSE CleanFrom([data EXCEPT ![all_[k]] = r.sd], k + 1)

SensorDataCollection_clean(data) == CleanFrom(data, 1)

\* SensorData.__repr__: "empty" for a channel of length 0; otherwise
\* "without timestamps" when np.all(np.isnan(timestamps)) or the lengths
\* differ, else "with timestamps".
SensorData_repr(sd) ==
    IF length(sd) = 0 THEN "empty"
    ELSE IF (\A i \in 1..Len(sd.timestamps) : isnan(sd.timestamps[i]))
            \/ Len(sd.timestamps) # length(sd)
    THEN "without timestamps"
    ELSE "with timestamps"

\* Two floats under np.array_equal(..., equal_nan=True): nan equals nan.
float_equal_nan(x, y) ==
    (isnan(x) /\ isnan(y)) \/ (~isnan(x) /\ ~isnan(y) /\ x.num = y.num)

\* np.array_equal(a, b, equal_nan=True) of the values arrays: the shapes
\* (rows, columns) agree and so does every element.
values_array_equal(a, ea, b, eb) ==
    /\ Len(a) = Len(b)
    /\ ea = eb
    /\ \A i \in 1..Len(a) : \A j \in 1..ea : float_equal_nan(a[i][j], b[i][j])

\* np.array_equal(a, b, equal_nan=True) of the timestamps arrays.
timestamps_array_equal(a, b) ==
    /\ Len(a) = Len(b)
    /\ \A i \in 1..Len(a) : float_equal_nan(a[i], b[i])

\* Faulty variant: the arrays compared with ==, under which nan differs from
\* nan.
SensorData_eq_NanDiffers(self, oth) ==
    /\ self.source = oth.source
    /\ Len(self.values) = Len(oth.values)
    /\ self.elements = oth.elements
    /\ \A i \in 1..Len(self.values) : \A j \in 1..self.elements :
          /\ ~isnan(self.values[i][j])
          /\ ~isnan(oth.values[i][j])
          /\ self.values[i][j].num = oth.values[i][j].num
    /\ Len(self.timestamps) = Len(oth.timestamps)
    /\ \A i \in 1..Len(self.timestamps) :
          /\ ~isnan(self.timestamps[i])
          /\ ~isnan(oth.timestamps[i])
          /\ self.timestamps[i].num = oth.timestamps[i].num

\* SensorData.__eq__ (other is a SensorData)
SensorData_eq(self, oth) ==
    IF ~(self.source = oth.source) THEN FALSE
    ELSE IF ~values_array_equal(self.values, self.elements, oth.values, oth.elements) THEN FALSE
    ELSE IF ~timestamps_array_equal(self.timestamps, oth.timestamps) THEN FALSE
    ELSE TRUE

\* SensorDataCollection.__eq__ (other is a SensorDataCollection): the members
\* of the two _all lists, pair by pair.
SensorDataCollection_eq(self, oth) ==
    \A k \in 1..Len(all_) : SensorData_eq(self[all_[k]], oth[all_[k]])

\* ---------------------------------------------------------------- parsers
\* entry.get(name, None)
NoneSample == [name |-> "None", value |-> Sca(NaN), has_ts |-> FALSE, timestamp |-> NaN]

entry_get(entry, name) ==
    IF name \in DOMAIN entry.members THEN entry.members[name] ELSE NoneSample

\* Faulty variant: the sample's timestamp is not read.
parse_sample_NoTimestamp(sample) ==
    IF sample = NoneSample
    THEN <<Sca(NaN), NaN>>
    ELSE <<sample.value, NaN>>

\* SensorStreamerParser._parse_sample: (value, timestamp)
parse_sample(sample) ==
    IF sample = NoneSample
    THEN <<Sca(NaN), NaN>>
    ELSE <<sample.value, IF sample.has_ts THEN sample.timestamp ELSE NaN>>

\* The set() calls of one entry, in the order of the source: channel, field.
SetOrder ==
    << <<"acc", "accelerometer">>, <<"grav_acc", "gravity">>,
       <<"lin_acc", "linearAcceleration">>, <<"mag", "magneticField">>,
       <<"omega", "gyroscope">>, <<"rot", "rotationVector">>,
       <<"light", "light">>, <<"pressure", "pressure">>,
       <<"temp", "ambientTemperature">>, <<"prox", "proximity">>,
       <<"hum", "relativeHumidity">> >>

\* The loop of _parse_entries from entry n (0-based), set call k of it.
RECURSIVE FillFrom(_, _, _, _)
FillFrom(data, entries, n, k) ==
    IF n >= Len(entries) THEN [exc |-> "none", data |-> data]
    ELSE IF entries[n + 1].type # "dict" THEN [exc |-> "AttributeError", data |-> data]
    ELSE IF k > Len(SetOrder) THEN FillFrom(data, entries, n + 1, 1)
    ELSE LET ch == SetOrder[k][1]
             vt == parse_sample(entry_get(entries[n + 1], SetOrder[k][2]))
             r == SensorData_set(data[ch], vt[1], vt[2], n)
         IN  IF r.exc # "none" THEN [exc |-> r.exc, data |-> [data EXCEPT ![ch] = r.sd]]
             ELSE FillFrom([data EXCEPT ![ch] = r.sd], entries, n, k + 1)

\* Return values of a call: None, a list of entries, a SensorDataCollection,
\* or an exception leaving the call.
None == [tag |-> "None", entries |-> <<>>, data |-> <<>>, exc |-> "none"]
RetList(es) == [tag |-> "list", entries |-> es, data |-> <<>>, exc |-> "none"]
RetData(d) == [tag |-> "SensorDataCollection", entries |-> <<>>, data |-> d, exc |-> "none"]
Raise(e) == [tag |-> "raise", entries |-> <<>>, data |-> <<>>, exc |-> e]

\* The set() calls the loop of _parse_entries makes from entry n (0-based),
\* set call k of it, in order: the channel, the row index passed, the
\* channel's capacity at the call and the exception the call raised.  The
\* loop ends with the first exception.
RECURSIVE SetCallsFrom(_, _, _, _)
SetCallsFrom(data, entries, n, k) ==
    IF n >= Len(entries) THEN <<>>
    ELSE IF entries[n + 1].type # "dict" THEN <<>>
    ELSE IF k > Len(SetOrder) THEN SetCallsFrom(data, entries, n + 1, 1)
    ELSE LET ch == SetOrder[k][1]
             vt == parse_sample(entry_get(entries[n + 1], SetOrder[k][2]))
             r == SensorData_set(data[ch], vt[1], vt[2], n)
         IN  <<[ch |-> ch, n |-> n, capacity |-> Len(data[ch].timestamps), exc |-> r.exc]>>
                 \o (IF r.exc # "none" THEN <<>>
                     ELSE SetCallsFrom([data EXCEPT ![ch] = r.sd], entries, n, k + 1))

\* Faulty variant: the collection is allocated one row short.
NewCollection_OneShort(entries) ==
    SensorDataCollection(IF Len(entries) > 0 THEN Len(entries) - 1 ELSE 0)

\* data = SensorDataCollection(len(entries))
NewCollection(entries) == SensorDataCollection(Len(entries))

\* The set() calls of _parse_entries(entries).
SetCalls(entries) == SetCallsFrom(NewCollection(entries), entries, 0, 1)

\* SensorStreamerParser._parse_entries
SensorStreamer_parse_entries(entries) ==
    LET filled == FillFrom(NewCollection(entries), entries, 0, 1)
        cleaned == SensorDataCollection_clean(filled.data)
    IN  IF filled.exc # "none" THEN Raise(filled.exc)
        ELSE IF cleaned.exc # "none" THEN Raise(cleaned.exc)
        ELSE RetData(cleaned.data)

\* BaseParser._parse_entries
Base_parse_entries(entries) == RetList(entries)

parse_entries(kind, entries) ==
    IF kind = "SensorStreamerParser" THEN SensorStreamer_parse_entries(entries)
    ELSE Base_parse_entries(entries)

\* The try/except loop of __call__: the decoded lines, in order, and one
\* warning per line that fails to decode unless silenced.
RECURSIVE DecodeLines(_)
DecodeLines(lines) ==
    IF lines = <<>> THEN <<>>
    ELSE LET d == json_loads(Head(lines))
         IN  (IF d.ok THEN <<d.v>> ELSE <<>>) \o DecodeLines(Tail(lines))

RECURSIVE CountFailed(_)
CountFailed(lines) ==
    IF lines = <<>> THEN 0
    ELSE (IF json_loads(Head(lines)).ok THEN 0 ELSE 1) + CountFailed(Tail(lines))

\* Faulty variant: the segment after the last terminator is decoded as well.
BaseParser_call_Eager(kind, silent, buffer, chunk) ==
    LET in_string == buffer \o chunk
        split_lines == split(in_string, LF)
        lines_to_parse == split_lines
        json_entries == DecodeLines(lines_to_parse)
    IN  [in_string |-> in_string,
         input_buffer |-> Last(split_lines),
         lines_to_parse |-> lines_to_parse,
         json_entries |-> json_entries,
         warned |-> IF silent THEN 0 ELSE CountFailed(lines_to_parse),
         ret |-> parse_entries(kind, json_entries)]

\* Faulty variant: the carried-over buffer is not prepended to the chunk.
BaseParser_call_NoCarry(kind, silent, buffer, chunk) ==
    LET in_string == chunk
        split_lines == split(in_string, LF)
        lines_to_parse == Front(split_lines)
        json_entries == DecodeLines(lines_to_parse)
    IN  [in_string |-> in_string,
         input_buffer |-> Last(split_lines),
         lines_to_parse |-> lines_to_parse,
         json_entries |-> json_entries,
         warned |-> IF silent THEN 0 ELSE CountFailed(lines_to_parse),
         ret |-> parse_entries(kind, json_entries)]

\* Faulty variant: a line that fails to decode is skipped only when warnings
\* are silenced; otherwise the decoding error leaves the call.
BaseParser_call_WarningRaises(kind, silent, buffer, chunk) ==
    LET in_string == buffer \o chunk
        split_lines == split(in_string, LF)
        lines_to_parse == Front(split_lines)
        json_entries == DecodeLines(lines_to_parse)
    IN  [in_string |-> in_string,
         input_buffer |-> Last(split_lines),
         lines_to_parse |-> lines_to_parse,
         json_entries |-> json_entries,
         warned |-> 0,
         ret |-> IF ~silent /\ CountFailed(lines_to_parse) > 0
                 THEN Raise("JSONDecodeError")
                 ELSE parse_entries(kind, json_entries)]

\* BaseParser.__call__(in_string) of a parser whose buffer is input_buffer.
BaseParser_call(kind, silent, buffer, chunk) ==
    LET in_string == buffer \o chunk
        split_lines == split(in_string, LF)
        lines_to_parse == Front(split_lines)
        json_entries == DecodeLines(lines_to_parse)
    IN  [in_string |-> in_string,
         input_buffer |-> Last(split_lines),
         lines_to_parse |-> lines_to_parse,
         json_entries |-> json_entries,
         warned |-> IF silent THEN 0 ELSE CountFailed(lines_to_parse),
         ret |-> parse_entries(kind, json_entries)]

\* ------------------------------------------------------------------ state
VARIABLES
    text,             \* the text a test feeds to the parser, piece by piece
    pos,              \* how much of text has been fed
    kind,             \* the parser's class
    silent_warnings,  \* BaseParser.silent_warnings
    input_buffer,     \* BaseParser.input_buffer
    warnings,         \* number of logging.warning calls made by the parser
    calls,            \* the calls made on the parser so far, oldest first
    whole,            \* the calls made on a second, fresh parser fed text at once
    connection,       \* SensorStreamerClient.connection: "None" or "socket"
    sock,             \* the socket object: "none", "created", "connected", "closed"
    exits,            \* number of __exit__ calls
    closeCalls,       \* number of connection.close() calls
    released,         \* number of times the socket's descriptor was released
    wire,             \* text the device has still to send
    rx,               \* text received by the socket and not yet read
    peerClosed,       \* the device closed its end
    step,             \* what the last __next__ did
    yielded,          \* the values __next__ returned to the caller, oldest first
    data,             \* a SensorDataCollection a caller builds
    other,            \* a second, independently built SensorDataCollection
    nsets,            \* number of SensorData.set calls made
    ncleans,          \* number of clean() calls made
    last,             \* the last container operation and the exception it raised
    twin_buffer,      \* input_buffer of a second parser, constructed with the other flag
    twin_warnings,    \* number of logging.warning calls made by the second parser
    twin_calls        \* the calls made on the second parser, oldest first

twinVars == <<twin_buffer, twin_warnings, twin_calls>>
parserVars == <<text, pos, kind, silent_warnings, input_buffer, warnings, calls, whole,
                twin_buffer, twin_warnings, twin_calls>>
clientVars == <<connection, sock, exits, closeCalls, released, wire, rx, peerClosed, step, yielded>>
dataVars == <<data, other, nsets, ncleans, last>>
vars == <<text, pos, kind, silent_warnings, input_buffer, warnings, calls, whole,
          connection, sock, exits, closeCalls, released, wire, rx, peerClosed, step, yielded,
          data, other, nsets, ncleans, last,
          twin_buffer, twin_warnings, twin_calls>>

ParserKinds == {"BaseParser", "SensorStreamerParser"}

\* The record of the last __next__ call: whether select found the socket
\* readable, how many recv calls and parser calls it made, and what left it
\* (out: the value returned or the exception raised); n counts the calls.
NoStep == [n |-> 0, ready |-> FALSE, recvs |-> 0, fed |-> 0, out |-> None]

\* BaseParser.__init__
ParserInit ==
    /\ input_buffer = <<>>
    /\ warnings = 0
    /\ calls = <<>>
    /\ whole = <<>>
    /\ twin_buffer = <<>>
    /\ twin_warnings = 0
    /\ twin_calls = <<>>

\* SensorStreamerClient.__init__
ClientInit ==
    /\ connection = "None"
    /\ sock = "none"
    /\ exits = 0
    /\ closeCalls = 0
    /\ released = 0
    /\ rx = <<>>
    /\ peerClosed = FALSE
    /\ step = NoStep
    /\ yielded = <<>>

\* No container operation yet.
NoOp == [op |-> "none", exc |-> "none"]

\* Two collections as constructed with n and m entries.
DataInit(n, m) ==
    /\ data = SensorDataCollection(n)
    /\ other = SensorDataCollection(m)
    /\ nsets = 0
    /\ ncleans = 0
    /\ last = NoOp

\* One call of the parser, as a record kept in `calls`.
CallRecord(chunk) ==
    [chunk |-> chunk, before |-> input_buffer]
        @@ BaseParser_call(kind, silent_warnings, input_buffer, chunk)

\* --------------------------------------------- the parser fed by a test
TextAlphabet == {LF, LBrace, RBrace} \cup Digits

Init ==
    /\ text \in TextsUpTo(TextAlphabet, MaxLen)
    /\ pos = 0
    /\ kind \in ParserKinds
    /\ silent_warnings \in BOOLEAN
    /\ ParserInit
    /\ ClientInit
    /\ wire = <<>>
    /\ DataInit(0, 0)

\* base_parser(text) on a second parser: the whole text in one call.
FeedWhole ==
    /\ whole = <<>>
    /\ calls = <<>>
    /\ whole' = <<BaseParser_call(kind, silent_warnings, <<>>, text)>>
    /\ UNCHANGED <<text, pos, kind, silent_warnings, input_buffer, warnings, calls>>
    /\ UNCHANGED twinVars
    /\ UNCHANGED clientVars
    /\ UNCHANGED dataVars

\* base_parser(part): the next k characters of text.  An empty part is fed
\* only as the first call, or as the second call after the whole text.
FeedChunk(k) ==
    /\ whole # <<>>
    /\ k > 0 \/ calls = <<>> \/ (Len(calls) = 1 /\ pos = Len(text))
    /\ LET c == CallRecord(SubSeq(text, pos + 1, pos + k))
       IN  /\ input_buffer' = c.input_buffer
           /\ warnings' = warnings + c.warned
           /\ calls' = Append(calls, c)
    /\ pos' = pos + k
    /\ UNCHANGED <<text, kind, silent_warnings, whole>>
    /\ UNCHANGED twinVars
    /\ UNCHANGED clientVars
    /\ UNCHANGED dataVars

FeedPart == \E k \in 0..(Len(text) - pos) : FeedChunk(k)

Next ==
    \/ FeedWhole
    \/ FeedPart

Spec == Init /\ [][Next]_vars

\* ------------------------------- the parser fed frames of the SensorStreamer app
\* Frames of the app: one JSON object per line.
FrameSet ==
    { <<LBrace, RBrace>>,
      <<LBrace, "A0", RBrace>>,
      <<LBrace, "A1", RBrace>>,
      <<LBrace, "L", RBrace>>,
      <<LBrace, "A2", "X", RBrace>>,
      <<LBrace, "G", "N", "M", "Y", "R", RBrace>>,
      <<LBrace, "P", "T", "H", "L", RBrace>> }

\* The texts of at most n frames, each ended by the line terminator.
RECURSIVE FrameTexts(_)
FrameTexts(n) ==
    IF n = 0 THEN {<<>>}
    ELSE {<<>>} \cup {f \o <<LF>> \o t : f \in FrameSet, t \in FrameTexts(n - 1)}

InitFrames ==
    /\ text \in FrameTexts(MaxFrames)
    /\ pos = 0
    /\ kind \in ParserKinds
    /\ silent_warnings \in BOOLEAN
    /\ ParserInit
    /\ ClientInit
    /\ wire = <<>>
    /\ DataInit(0, 0)

\* The text in one call, and in at most two parts.
FeedOneOfTwo == \E k \in 0..(Len(text) - pos) : Len(calls) < 2 /\ FeedChunk(k)

NextFrames ==
    \/ FeedWhole
    \/ FeedOneOfTwo

SpecFrames == InitFrames /\ [][NextFrames]_vars

\* ------------------- the SensorStreamer parser fed good and bad lines
\* Lines a device may send: two frames of the app, a line that is not JSON
\* and a line that is JSON but not an object.
BatchLines ==
    { <<LBrace, "A1", RBrace>>,
      <<LBrace, "L", "X", RBrace>>,
      <<LBrace>>,
      <<"1">> }

\* The texts of at most n such lines, each ended by the line terminator.
RECURSIVE BatchTexts(_)
BatchTexts(n) ==
    IF n = 0 THEN {<<>>}
    ELSE {<<>>} \cup {f \o <<LF>> \o t : f \in BatchLines, t \in BatchTexts(n - 1)}

InitBatch ==
    /\ text \in BatchTexts(MaxLines)
    /\ pos = 0
    /\ kind = "SensorStreamerParser"
    /\ silent_warnings \in BOOLEAN
    /\ ParserInit
    /\ ClientInit
    /\ wire = <<>>
    /\ DataInit(0, 0)

NextBatchLines ==
    \/ FeedWhole
    \/ FeedOneOfTwo

SpecBatch == InitBatch /\ [][NextBatchLines]_vars

\* ----------------- two parsers that differ in silent_warnings, fed alike
\* BaseParser(silent_warnings=False) and BaseParser(silent_warnings=True),
\* of the same class: the first parser warns, the second is silenced.
InitTwin ==
    /\ text \in TextsUpTo(TextAlphabet, MaxLen)
    /\ pos = 0
    /\ kind \in ParserKinds
    /\ silent_warnings = FALSE
    /\ ParserInit
    /\ ClientInit
    /\ wire = <<>>
    /\ DataInit(0, 0)

\* One call of the second parser, constructed with the opposite flag.
TwinRecord(chunk) ==
    [chunk |-> chunk, before |-> twin_buffer]
        @@ BaseParser_call(kind, ~silent_warnings, twin_buffer, chunk)

\* parser(part) and twin(part): the next k characters of text fed to both
\* parsers.  An empty part is fed only as the first call.
FeedBoth(k) ==
    /\ k > 0 \/ calls = <<>>
    /\ LET c == CallRecord(SubSeq(text, pos + 1, pos + k))
       IN  /\ input_buffer' = c.input_buffer
           /\ warnings' = warnings + c.warned
           /\ calls' = Append(calls, c)
    /\ LET t == TwinRecord(SubSeq(text, pos + 1, pos + k))
       IN  /\ twin_buffer' = t.input_buffer
           /\ twin_warnings' = twin_warnings + t.warned
           /\ twin_calls' = Append(twin_calls, t)
    /\ pos' = pos + k
    /\ UNCHANGED <<text, kind, silent_warnings, whole>>
    /\ UNCHANGED clientVars
    /\ UNCHANGED dataVars

FeedBothPart == \E k \in 0..(Len(text) - pos) : FeedBoth(k)

NextTwin == FeedBothPart

SpecTwin == InitTwin /\ [][NextTwin]_vars

\* ------------------------------------------------------------- the client
\* Default of the constructor's bufsize parameter.
bufsize == 4096

\* Faulty variant: the result of select is not looked at.
select_ready_Always(rxq, eof) == TRUE

\* select.select([self.connection], [], [], self.timeout): the socket is
\* readable when received text waits or the device has closed its end.
select_ready(rxq, eof) == rxq # <<>> \/ eof

\* The condition of the while loop of _read.
LoopCondition(parsed) == parsed # None

Min(a, b) == IF a < b THEN a ELSE b

\* What one pass of the loop body leaves, given the parser call c it made on
\* the text raw it received.
AfterCall(c, rest) ==
    [out |-> c.ret, rx |-> rest, buf |-> c.input_buffer, recvs |-> 1, made |-> <<c>>,
     warned |-> c.warned]

\* connection.recv(bufsize).decode('utf-8') on the non-blocking socket:
\* BlockingIOError when nothing waits, the empty string once the device has
\* closed, otherwise at most bufsize characters (all of them ASCII, so the
\* decoding keeps them).
recv(rxq) == SubSeq(rxq, 1, Min(bufsize, Len(rxq)))

\* One pass of the loop body: recv, the check for the empty string, the
\* parser call.
ReadBody(rxq, eof, buf) ==
    IF rxq = <<>> /\ ~eof
    THEN [out |-> Raise("BlockingIOError"), rx |-> rxq, buf |-> buf, recvs |-> 0,
          made |-> <<>>, warned |-> 0]
    ELSE IF recv(rxq) = <<>>
    THEN [out |-> Raise("IOError"), rx |-> rxq, buf |-> buf, recvs |-> 1,
          made |-> <<>>, warned |-> 0]
    ELSE AfterCall([chunk |-> recv(rxq), before |-> buf]
                       @@ BaseParser_call(kind, silent_warnings, buf, recv(rxq)),
                   SubSeq(rxq, Len(recv(rxq)) + 1, Len(rxq)))

\* The loop of _read, entered with `parsed`: [out, rx, buf, recvs, made, warned],
\* where made are the parser calls of the loop.
RECURSIVE ReadLoop(_, _, _, _, _, _, _)

\* The loop after a pass b of its body: an exception leaves the loop, a
\* value is tested by the loop condition again.
LoopAfter(b, eof, recvs, made, warned) ==
    IF b.out.tag = "raise"
    THEN [out |-> b.out, rx |-> b.rx, buf |-> b.buf, recvs |-> recvs + b.recvs,
          made |-> made \o b.made, warned |-> warned + b.warned]
    ELSE ReadLoop(b.out, b.rx, eof, b.buf, recvs + b.recvs, made \o b.made,
                  warned + b.warned)

ReadLoop(parsed, rxq, eof, buf, recvs, made, warned) ==
    IF LoopCondition(parsed)
    THEN LoopAfter(ReadBody(rxq, eof, buf), eof, recvs, made, warned)
    ELSE [out |-> parsed, rx |-> rxq, buf |-> buf, recvs |-> recvs, made |-> made,
          warned |-> warned]

\* SensorStreamerClient._read on a connected socket.
read(rxq, eof, buf) ==
    IF select_ready(rxq, eof)
    THEN ReadLoop(None, rxq, eof, buf, 0, <<>>, 0)
    ELSE [out |-> Raise("TimeoutError"), rx |-> rxq, buf |-> buf, recvs |-> 0,
          made |-> <<>>, warned |-> 0]

\* socket.close(): releases the descriptor of an open socket; closing a
\* closed socket does nothing.
socket_close(s) ==
    IF s = "closed" THEN [sock |-> "closed", released |-> 0]
    ELSE [sock |-> "closed", released |-> 1]

\* The client as constructed for the SensorStreamer app (_pick_parser), with
\* the constructor's default silent_warnings; text is what the device sends.
InitClient ==
    /\ text \in FrameTexts(MaxFrames)
    /\ pos = 0
    /\ kind = "SensorStreamerParser"
    /\ silent_warnings = FALSE
    /\ ParserInit
    /\ ClientInit
    /\ wire = text
    /\ DataInit(0, 0)

\* __enter__, the connect succeeding.
Enter ==
    /\ sock = "none"
    /\ connection' = "socket"
    /\ sock' = "connected"
    /\ UNCHANGED <<exits, closeCalls, released, wire, rx, peerClosed, step, yielded>>
    /\ UNCHANGED parserVars
    /\ UNCHANGED dataVars

\* __enter__, connect() raising: the socket object stays in self.connection
\* and the with statement does not call __exit__.
EnterFails ==
    /\ sock = "none"
    /\ connection' = "socket"
    /\ sock' = "created"
    /\ UNCHANGED <<exits, closeCalls, released, wire, rx, peerClosed, step, yielded>>
    /\ UNCHANGED parserVars
    /\ UNCHANGED dataVars

\* The device sends the next k characters.
DeviceSends(k) ==
    /\ sock = "connected"
    /\ ~peerClosed
    /\ rx' = rx \o SubSeq(wire, 1, k)
    /\ wire' = SubSeq(wire, k + 1, Len(wire))
    /\ UNCHANGED <<connection, sock, exits, closeCalls, released, peerClosed, step, yielded>>
    /\ UNCHANGED parserVars
    /\ UNCHANGED dataVars

DeviceSend == \E k \in 1..Len(wire) : DeviceSends(k)

\* The device closes the connection.
DeviceCloses ==
    /\ sock = "connected"
    /\ ~peerClosed
    /\ peerClosed' = TRUE
    /\ UNCHANGED <<connection, sock, exits, closeCalls, released, wire, rx, step, yielded>>
    /\ UNCHANGED parserVars
    /\ UNCHANGED dataVars

\* __next__: _read on the connected socket.  (select on a socket the client
\* has closed raises ValueError.)
next_result ==
    IF sock = "closed"
    THEN [out |-> Raise("ValueError"), rx |-> rx, buf |-> input_buffer,
          recvs |-> 0, made |-> <<>>, warned |-> 0]
    ELSE read(rx, peerClosed, input_buffer)

NextBatch ==
    /\ connection = "socket"
    /\ sock \in {"connected", "closed"}
    /\ step.n < MaxNexts
    /\ \E r \in {next_result} :
           /\ step' = [n |-> step.n + 1,
                       ready |-> sock = "connected" /\ select_ready(rx, peerClosed),
                       recvs |-> r.recvs, fed |-> Len(r.made), out |-> r.out]
           /\ rx' = r.rx
           /\ input_buffer' = r.buf
           /\ calls' = calls \o r.made
           /\ warnings' = warnings + r.warned
           /\ yielded' = IF r.out.tag = "raise" THEN yielded ELSE Append(yielded, r.out)
    /\ UNCHANGED <<connection, sock, exits, closeCalls, released, wire, peerClosed>>
    /\ UNCHANGED <<text, pos, kind, silent_warnings, whole>>
    /\ UNCHANGED twinVars
    /\ UNCHANGED dataVars

\* Faulty variant: __exit__ without the call of close().
Exit_WithoutClose ==
    /\ sock \in {"connected", "closed"}
    /\ exits < MaxCloses
    /\ exits' = exits + 1
    /\ UNCHANGED <<connection, sock, closeCalls, released, wire, rx, peerClosed, step, yielded>>
    /\ UNCHANGED parserVars
    /\ UNCHANGED dataVars

\* __exit__: the with statement calls it once __enter__ has returned; the
\* caller may call it again.
Exit ==
    /\ sock \in {"connected", "closed"}
    /\ exits < MaxCloses
    /\ exits' = exits + 1
    /\ IF connection # "None"
       THEN /\ closeCalls' = closeCalls + 1
            /\ sock' = socket_close(sock).sock
            /\ released' = released + socket_close(sock).released
       ELSE UNCHANGED <<closeCalls, sock, released>>
    /\ UNCHANGED <<connection, wire, rx, peerClosed, step, yielded>>
    /\ UNCHANGED parserVars
    /\ UNCHANGED dataVars

NextClient ==
    \/ Enter
    \/ EnterFails
    \/ DeviceSend
    \/ DeviceCloses
    \/ NextBatch
    \/ Exit

SpecClient == InitClient /\ [][NextClient]_vars

\* ------------------------------------- the standalone client of main.py
\* main.py carries its own containers, parsing and client in one file.
\* Default of the constructor's bufsize parameter.
Main_bufsize == 4096

\* SensorData.__init__ of main.py: the values array always has two
\* dimensions, (n_entries, elements), also with elements = 1.
Main_SensorData(n_entries, elements, source) ==
    [source |-> source,
     elements |-> elements,
     timestamps |-> [i \in 1..n_entries |-> NaN],
     values |-> [i \in 1..n_entries |-> [j \in 1..elements |-> NaN]]]

\* SensorData.set of main.py: the timestamp is written first.
Main_SensorData_set(sd, value, timestamp, n) ==
    LET i == PyIndex(n, Len(sd.timestamps))
        r == RowOf(value, sd.elements)
    IN  IF i < 1 \/ i > Len(sd.timestamps)
        THEN [exc |-> "IndexError", sd |-> sd]
        ELSE IF ~r.ok
        THEN [exc |-> "ValueError", sd |-> [sd EXCEPT !.timestamps[i] = timestamp]]
        ELSE [exc |-> "none",
              sd |-> [sd EXCEPT !.timestamps[i] = timestamp, !.values[i] = r.row]]

\* nanmask = ~np.any(np.isnan(self._values), axis=-1) on the two-dimensional
\* array: one flag per row.
Main_nanmask(sd) == [i \in 1..Len(sd.values) |-> ~RowHasNan(sd.values[i])]

\* SensorData.clean of main.py (the squeeze() result is discarded).
Main_SensorData_clean(sd) ==
    [sd EXCEPT !.values = Masked(sd.values, Main_nanmask(sd)),
               !.timestamps = Masked(sd.timestamps, Main_nanmask(sd))]

\* SensorDataCollection.__init__ of main.py
Main_SensorDataCollection(n_entries) ==
    [ch \in Channels |-> Main_SensorData(n_entries, Elements(ch), Source(ch))]

\* self._all of main.py (self.prox is not in the list)
Main_all == {"acc", "grav_acc", "lin_acc", "mag", "omega", "rot", "light", "temp",
             "pressure", "hum"}

\* SensorDataCollection.clean of main.py: no member's clean raises, so the
\* order of the loop does not show.
Main_SensorDataCollection_clean(coll) ==
    [ch \in Channels |-> IF ch \in Main_all THEN Main_SensorData_clean(coll[ch]) ELSE coll[ch]]

\* SensorStreamerClient._parse_sample of main.py
Main_parse_sample(sample) ==
    IF sample = NoneSample
    THEN <<Sca(NaN), NaN>>
    ELSE <<sample.value, IF sample.has_ts THEN sample.timestamp ELSE NaN>>

\* The loop of _parse_entries of main.py from entry n (0-based), set call k
\* of it; the set calls come in the order of SetOrder.
RECURSIVE Main_FillFrom(_, _, _, _)
Main_FillFrom(coll, entries, n, k) ==
    IF n >= Len(entries) THEN [exc |-> "none", data |-> coll]
    ELSE IF entries[n + 1].type # "dict" THEN [exc |-> "AttributeError", data |-> coll]
    ELSE IF k > Len(SetOrder) THEN Main_FillFrom(coll, entries, n + 1, 1)
    ELSE LET ch == SetOrder[k][1]
             vt == Main_parse_sample(entry_get(entries[n + 1], SetOrder[k][2]))
             r == Main_SensorData_set(coll[ch], vt[1], vt[2], n)
         IN  IF r.exc # "none" THEN [exc |-> r.exc, data |-> [coll EXCEPT ![ch] = r.sd]]
             ELSE Main_FillFrom([coll EXCEPT ![ch] = r.sd], entries, n, k + 1)

\* SensorStreamerClient._parse_entries of main.py
Main_parse_entries(in_data) ==
    LET filled == Main_FillFrom(Main_SensorDataCollection(Len(in_data)), in_data, 0, 1)
    IN  IF filled.exc # "none" THEN Raise(filled.exc)
        ELSE RetData(Main_SensorDataCollection_clean(filled.data))

\* connection.recv(self.bufsize).decode('utf-8'): the empty string once the
\* device has closed and nothing waits.
Main_recv(rxq) == SubSeq(rxq, 1, Min(Main_bufsize, Len(rxq)))

\* The part of _read after the check for the empty string: split, keep the
\* last segment, decode the others (the try/except loop is that of
\* BaseParser.__call__ line for line), build the collection.
Main_parse(buf, raw, rest) ==
    LET utf8 == buf \o raw
        split_lines == split(utf8, LF)
        lines_to_parse == Front(split_lines)
        json_entries == DecodeLines(lines_to_parse)
        warned == IF silent_warnings THEN 0 ELSE CountFailed(lines_to_parse)
        ret == Main_parse_entries(json_entries)
    IN  [out |-> ret, rx |-> rest, buf |-> Last(split_lines), recvs |-> 1,
         made |-> <<[chunk |-> raw, before |-> buf, in_string |-> utf8,
                     input_buffer |-> Last(split_lines),
                     lines_to_parse |-> lines_to_parse, json_entries |-> json_entries,
                     warned |-> warned, ret |-> ret]>>,
         warned |-> warned]

\* Faulty variant: the connection is taken for closed whenever the chunk
\* received is empty, whatever the buffer holds.
Main_read_ChecksRawOnly(rxq, eof, buf) ==
    IF select_ready(rxq, eof)
    THEN IF Main_recv(rxq) = <<>>
         THEN [out |-> Raise("RuntimeError"), rx |-> rxq, buf |-> buf, recvs |-> 1,
               made |-> <<>>, warned |-> 0]
         ELSE Main_parse(buf, Main_recv(rxq), SubSeq(rxq, Len(Main_recv(rxq)) + 1, Len(rxq)))
    ELSE [out |-> Raise("TimeoutError"), rx |-> rxq, buf |-> buf, recvs |-> 0,
          made |-> <<>>, warned |-> 0]

\* SensorStreamerClient._read of main.py on a connected socket whose
\* inputbuffer is buf.
Main_read(rxq, eof, buf) ==
    IF select_ready(rxq, eof)
    THEN IF buf \o Main_recv(rxq) = <<>>
         THEN [out |-> Raise("RuntimeError"), rx |-> rxq, buf |-> buf, recvs |-> 1,
               made |-> <<>>, warned |-> 0]
         ELSE Main_parse(buf, Main_recv(rxq), SubSeq(rxq, Len(Main_recv(rxq)) + 1, Len(rxq)))
    ELSE [out |-> Raise("TimeoutError"), rx |-> rxq, buf |-> buf, recvs |-> 0,
          made |-> <<>>, warned |-> 0]

\* Lines the device sends: a frame of the app, a line that is not JSON and a
\* line that is JSON but not an object.
MainLines ==
    { <<LBrace, "A1", "L", RBrace>>,
      <<LBrace>>,
      <<"1">> }

\* The texts of at most n such lines, each ended by the line terminator.
RECURSIVE MainTexts(_)
MainTexts(n) ==
    IF n = 0 THEN {<<>>}
    ELSE {<<>>} \cup {f \o <<LF>> \o t : f \in MainLines, t \in MainTexts(n - 1)}

\* The client of main.py as constructed with its defaults; text is what the
\* device sends.  input_buffer stands for self.inputbuffer.
InitMain ==
    /\ text \in MainTexts(MaxFrames)
    /\ pos = 0
    /\ kind = "SensorStreamerParser"
    /\ silent_warnings = FALSE
    /\ ParserInit
    /\ ClientInit
    /\ wire = text
    /\ DataInit(0, 0)

\* __enter__ of main.py, the connect succeeding.
Main_Enter ==
    /\ sock = "none"
    /\ connection' = "socket"
    /\ sock' = "connected"
    /\ UNCHANGED <<exits, closeCalls, released, wire, rx, peerClosed, step, yielded>>
    /\ UNCHANGED parserVars
    /\ UNCHANGED dataVars

\* __next__ of main.py: _read on the connected socket.  (select on a socket
\* the client has closed raises ValueError.)
Main_next_result ==
    IF sock = "closed"
    THEN [out |-> Raise("ValueError"), rx |-> rx, buf |-> input_buffer,
          recvs |-> 0, made |-> <<>>, warned |-> 0]
    ELSE Main_read(rx, peerClosed, input_buffer)

Main_NextBatch ==
    /\ connection = "socket"
    /\ sock \in {"connected", "closed"}
    /\ step.n < MaxNexts
    /\ \E r \in {Main_next_result} :
           /\ step' = [n |-> step.n + 1,
                       ready |-> sock = "connected" /\ select_ready(rx, peerClosed),
                       recvs |-> r.recvs, fed |-> Len(r.made), out |-> r.out]
           /\ rx' = r.rx
           /\ input_buffer' = r.buf
           /\ calls' = calls \o r.made
           /\ warnings' = warnings + r.warned
           /\ yielded' = IF r.out.tag = "raise" THEN yielded ELSE Append(yielded, r.out)
    /\ UNCHANGED <<connection, sock, exits, closeCalls, released, wire, peerClosed>>
    /\ UNCHANGED <<text, pos, kind, silent_warnings, whole>>
    /\ UNCHANGED twinVars
    /\ UNCHANGED dataVars

\* __exit__ of main.py: close() whenever the client holds a socket.
Main_Exit ==
    /\ sock \in {"connected", "closed"}
    /\ exits < MaxCloses
    /\ exits' = exits + 1
    /\ IF connection # "None"
       THEN /\ closeCalls' = closeCalls + 1
            /\ sock' = socket_close(sock).sock
            /\ released' = released + socket_close(sock).released
       ELSE UNCHANGED <<closeCalls, sock, released>>
    /\ UNCHANGED <<connection, wire, rx, peerClosed, step, yielded>>
    /\ UNCHANGED parserVars
    /\ UNCHANGED dataVars

NextMain ==
    \/ Main_Enter
    \/ DeviceSend
    \/ DeviceCloses
    \/ Main_NextBatch
    \/ Main_Exit

SpecMain == InitMain /\ [][NextMain]_vars

\* ------------------------------------------- the containers used directly
\* The (value, timestamp) pairs a caller passes to set() of a channel: a
\* full sample with and without timestamp, the unset sample of an absent
\* field, a vector with one unset component, and a value whose shape does
\* not fit a row of the channel.
Samples(ch) ==
    IF Elements(ch) = 3
    THEN { <<V3(1), F(1)>>, <<V3(2), NaN>>, <<Sca(NaN), NaN>>,
           <<Vec(<<F(3), NaN, F(3)>>), F(3)>>, <<Vec(<<F(4), F(4)>>), F(4)>> }
    ELSE { <<S1(1), F(1)>>, <<S1(2), NaN>>, <<Sca(NaN), NaN>>, <<V3(4), F(4)>> }

\* The row indices a caller passes: every index of the channel, the first
\* index past either end, and the last row counted from the end.
Indices(cap) == {-(cap + 1), -1} \cup (0..cap)

\* The channels a caller sets: of the vector channels and of the scalar
\* channels the first and the last of _all, and prox.
SetChannels == {"acc", "rot", "light", "hum", "prox"}

InitData ==
    /\ text = <<>>
    /\ pos = 0
    /\ kind = "SensorStreamerParser"
    /\ silent_warnings = FALSE
    /\ ParserInit
    /\ ClientInit
    /\ wire = <<>>
    /\ \E n \in 0..MaxRows : DataInit(n, 0)

\* data.<ch>.set(value, timestamp, n); an exception is caught by the caller.
DataSetOp(ch, smp, n) ==
    /\ nsets + ncleans < MaxOps
    /\ nsets' = nsets + 1
    /\ data' = [data EXCEPT ![ch] = SensorData_set(data[ch], smp[1], smp[2], n).sd]
    /\ last' = [op |-> "set", exc |-> SensorData_set(data[ch], smp[1], smp[2], n).exc]
    /\ UNCHANGED <<other, ncleans>>
    /\ UNCHANGED parserVars
    /\ UNCHANGED clientVars

DataSet ==
    \E ch \in SetChannels : \E smp \in Samples(ch) :
        \E n \in Indices(Len(data[ch].timestamps)) : DataSetOp(ch, smp, n)

\* data.clean(); an exception is caught by the caller.
DataClean ==
    /\ nsets + ncleans < MaxOps
    /\ ncleans' = ncleans + 1
    /\ data' = SensorDataCollection_clean(data).data
    /\ last' = [op |-> "clean", exc |-> SensorDataCollection_clean(data).exc]
    /\ UNCHANGED <<other, nsets>>
    /\ UNCHANGED parserVars
    /\ UNCHANGED clientVars

\* data.<ch>.clean(): one channel compacted by the caller.
DataChannelClean ==
    \E ch \in SetChannels :
        /\ nsets + ncleans < MaxOps
        /\ ncleans' = ncleans + 1
        /\ data' = [data EXCEPT ![ch] = SensorData_clean(data[ch]).sd]
        /\ last' = [op |-> "clean_channel", exc |-> SensorData_clean(data[ch]).exc]
        /\ UNCHANGED <<other, nsets>>
        /\ UNCHANGED parserVars
        /\ UNCHANGED clientVars

NextData ==
    \/ DataSet
    \/ DataClean
    \/ DataChannelClean

SpecData == InitData /\ [][NextData]_vars

\* ----------------------------------------------------- claims: the parser
HasLF(s) == \E i \in 1..Len(s) : s[i] = LF

\* The lines, each with its terminator, one after the other.
RECURSIVE Join(_)
Join(lines) == IF lines = <<>> THEN <<>> ELSE Head(lines) \o <<LF>> \o Join(Tail(lines))

\* The text was fed in exactly two parts.
TwoParts == Len(calls) = 2 /\ pos = Len(text) /\ whole # <<>>

C2_BufferUnterminated ==
    /\ ~HasLF(input_buffer)
    /\ \A i \in 1..Len(calls) :
          /\ calls[i].before = (IF i = 1 THEN <<>> ELSE calls[i - 1].input_buffer)
          /\ Join(calls[i].lines_to_parse) \o calls[i].input_buffer
                = calls[i].before \o calls[i].chunk
          /\ \A j \in 1..Len(calls[i].lines_to_parse) : ~HasLF(calls[i].lines_to_parse[j])
          /\ ~HasLF(calls[i].input_buffer)
    /\ calls # <<>> => input_buffer = Last(calls).input_buffer

\* A call that starts with a partial line, completes lines and ends with a
\* chunk whose last character is a terminator, so the buffer becomes empty.
C2_Witness ==
    \E i \in 1..Len(calls) :
        /\ calls[i].before # <<>>
        /\ calls[i].lines_to_parse # <<>>
        /\ Last(calls[i].chunk) = LF
        /\ input_buffer = <<>>
        /\ i = Len(calls)

\* C3: a call that completes no line (a chunk of partial JSON: buffer and
\* chunk together hold no terminator) returns None, not an empty list of
\* entries and not an empty SensorDataCollection.
C3_NoLinesReturnsNone ==
    \A i \in 1..Len(calls) :
        (calls[i].chunk # <<>> /\ ~HasLF(calls[i].in_string)) => calls[i].ret = None

\* The lines of a call that decode, decoded, in their order.
Decoded(lines) ==
    LET good == {j \in 1..Len(lines) : json_loads(lines[j]).ok}
        nth(k) == CHOOSE j \in good : Cardinality({m \in good : m < j}) = k - 1
    IN  [k \in 1..Cardinality(good) |-> json_loads(lines[nth(k)]).v]

\* C7: in a call some of whose complete lines fail to decode, exactly those
\* lines are dropped: the entries handed to _parse_entries are the decoded
\* lines in their order, the call does not raise, and the buffer is what the
\* terminators alone determine.
C7_MalformedLinesDropped ==
    \A i \in 1..Len(calls) :
        (\E j \in 1..Len(calls[i].lines_to_parse) : ~json_loads(calls[i].lines_to_parse[j]).ok)
        => /\ calls[i].json_entries = Decoded(calls[i].lines_to_parse)
           /\ calls[i].ret.tag # "raise"
           /\ Join(calls[i].lines_to_parse) \o calls[i].input_buffer = calls[i].in_string

\* The JSON field of a channel.
FieldOf(ch) == SetOrder[CHOOSE k \in 1..Len(SetOrder) : SetOrder[k][1] = ch][2]

\* C8: for a batch of valid complete lines fed to the SensorStreamer parser,
\* every channel of the returned collection is as long as the number of
\* entries that contain the channel's field.
C8_ChannelLengths ==
    \A i \in 1..Len(calls) :
        LET c == calls[i]
        IN  (/\ kind = "SensorStreamerParser"
             /\ c.lines_to_parse # <<>>
             /\ \A j \in 1..Len(c.lines_to_parse) : IsObjectText(c.lines_to_parse[j]))
            => /\ c.ret.tag = "SensorDataCollection"
               /\ \A ch \in Channels :
                     length(c.ret.data[ch])
                        = Cardinality({j \in 1..Len(c.json_entries) :
                                          FieldOf(ch) \in DOMAIN c.json_entries[j].members})

\* ----------------------------------------------------- claims: the client
\* C4: a value __next__ returns is a SensorDataCollection the parser made
\* from received text, never None, and at least one recv was fed to the
\* parser before the return.
C4_ReturnsParsedBatch ==
    /\ (step.n > 0 /\ step.out.tag # "raise")
          => /\ step.out # None
             /\ step.out.tag = "SensorDataCollection"
             /\ step.recvs >= 1
             /\ step.fed >= 1
    /\ \A i \in 1..Len(yielded) : yielded[i] # None

\* C5: a __next__ that finds the socket readable with nothing to read (the
\* device has closed and no text waits, so recv returns the empty string)
\* raises IOError and returns nothing to the caller.
C5_ZeroBytesRaisesIOError ==
    [][(NextBatch /\ sock = "connected" /\ peerClosed /\ rx = <<>>)
          => (step'.out = Raise("IOError") /\ yielded' = yielded)]_vars

\* C6: a __next__ on a connected socket on which nothing becomes readable
\* raises TimeoutError (not the IOError of a closed connection), makes no
\* recv and no parser call, and leaves the parser's buffer, the received
\* text and the socket as they were.
C6_TimeoutLeavesStateAlone ==
    [][(NextBatch /\ sock = "connected" /\ ~peerClosed /\ rx = <<>>)
          => /\ step'.out = Raise("TimeoutError")
             /\ step'.out # Raise("IOError")
             /\ step'.recvs = 0
             /\ step'.fed = 0
             /\ input_buffer' = input_buffer
             /\ rx' = rx
             /\ sock' = sock
             /\ connection' = connection
             /\ yielded' = yielded]_vars

\* A timeout reported while the parser holds nothing and the socket is open.
C6_Witness ==
    /\ step.n > 0
    /\ step.out = Raise("TimeoutError")
    /\ ~step.ready
    /\ sock = "connected"

\* The rows of channel ch in the collections returned so far, in order.
RECURSIVE RowsYielded(_, _)
RowsYielded(ys, ch) ==
    IF ys = <<>> THEN <<>> ELSE Head(ys).data[ch].values \o RowsYielded(Tail(ys), ch)

\* The rows of channel ch the device's text carries, in order.
RECURSIVE RowsOf(_, _)
RowsOf(entries, ch) ==
    IF entries = <<>> THEN <<>>
    ELSE (IF FieldOf(ch) \in DOMAIN Head(entries).members
          THEN <<RowOf(Head(entries).members[FieldOf(ch)].value, Elements(ch)).row>>
          ELSE <<>>) \o RowsOf(Tail(entries), ch)

RowsSent(ch) == RowsOf(DecodeLines(Front(split(text, LF))), ch)

IsPrefix(a, b) == Len(a) <= Len(b) /\ a = SubSeq(b, 1, Len(a))

\* C9: when the device sends k >= 1 complete frames and closes, the
\* collections the iteration returns hold exactly the samples sent, each
\* once and in order, and the iteration ends with IOError: a __next__ made
\* after everything was read raises it, and by then all samples were returned.
C9_FramesThenClose ==
    text # <<>> =>
        /\ \A i \in 1..Len(yielded) : yielded[i].tag = "SensorDataCollection"
        /\ \A ch \in Channels : IsPrefix(RowsYielded(yielded, ch), RowsSent(ch))
        /\ step.out = Raise("IOError")
              => \A ch \in Channels : RowsYielded(yielded, ch) = RowsSent(ch)
        /\ (step.n > 0 /\ step.ready /\ peerClosed /\ wire = <<>> /\ rx = <<>>)
              => step.out = Raise("IOError")

\* C10 as stated: the socket's close() is invoked at most once however often
\* __exit__ is called.
C10_CloseInvokedOnce == closeCalls <= 1

\* C10 amended: __exit__ calls connection.close() every time it runs on a
\* client that has a socket, and the socket is released exactly once: the
\* first call releases it, a later call finds it closed and releases nothing.
C10_ReleasedOnce ==
    /\ released <= 1
    /\ closeCalls = exits
    /\ exits >= 1 => (released = 1 /\ sock = "closed")
    /\ exits = 0 => (released = 0 /\ sock # "closed")

\* __exit__ has run twice on a connected client.
C10_Witness == exits >= 2 /\ closeCalls >= 2 /\ sock = "closed"

\* C11: every socket the client opened is closed once the session is over,
\* however it ended: when __enter__ has raised (the with statement is left
\* without a call of __exit__) and when __exit__ has run, the socket the
\* client holds is closed.
C11_OpenedSocketsClosed ==
    (connection = "socket" /\ (sock = "created" \/ exits >= 1)) => sock = "closed"

\* ------------------------------------------ two collections compared
InitEq ==
    /\ text = <<>>
    /\ pos = 0
    /\ kind = "SensorStreamerParser"
    /\ silent_warnings = FALSE
    /\ ParserInit
    /\ ClientInit
    /\ wire = <<>>
    /\ \E n \in 0..MaxRows : \E m \in 0..MaxRows : DataInit(n, m)

\* The samples set in the collections compared: a full sample with and
\* without a timestamp, and the unset sample.
EqSamples(ch) ==
    IF Elements(ch) = 3
    THEN { <<V3(1), F(1)>>, <<V3(2), NaN>>, <<Sca(NaN), NaN>> }
    ELSE { <<S1(1), F(1)>>, <<S1(2), NaN>>, <<Sca(NaN), NaN>> }

\* <ch>.set(value, timestamp, n) on a channel of the first collection, with
\* a row index of the channel.
EqSetData ==
    \E ch \in SetChannels : \E smp \in EqSamples(ch) :
        \E n \in 0..(Len(data[ch].timestamps) - 1) :
            /\ nsets + ncleans < MaxOps
            /\ nsets' = nsets + 1
            /\ data' = [data EXCEPT ![ch] = SensorData_set(data[ch], smp[1], smp[2], n).sd]
            /\ last' = [op |-> "set", exc |-> SensorData_set(data[ch], smp[1], smp[2], n).exc]
            /\ UNCHANGED <<other, ncleans>>
            /\ UNCHANGED parserVars
            /\ UNCHANGED clientVars

\* The same on a channel of the second collection.
EqSetOther ==
    \E ch \in SetChannels : \E smp \in EqSamples(ch) :
        \E n \in 0..(Len(other[ch].timestamps) - 1) :
            /\ nsets + ncleans < MaxOps
            /\ nsets' = nsets + 1
            /\ other' = [other EXCEPT ![ch] = SensorData_set(other[ch], smp[1], smp[2], n).sd]
            /\ last' = [op |-> "set", exc |-> SensorData_set(other[ch], smp[1], smp[2], n).exc]
            /\ UNCHANGED <<data, ncleans>>
            /\ UNCHANGED parserVars
            /\ UNCHANGED clientVars

\* clean() of the first collection, and of the second.
EqCleanData ==
    /\ nsets + ncleans < MaxOps
    /\ ncleans' = ncleans + 1
    /\ data' = SensorDataCollection_clean(data).data
    /\ last' = [op |-> "clean", exc |-> SensorDataCollection_clean(data).exc]
    /\ UNCHANGED <<other, nsets>>
    /\ UNCHANGED parserVars
    /\ UNCHANGED clientVars

EqCleanOther ==
    /\ nsets + ncleans < MaxOps
    /\ ncleans' = ncleans + 1
    /\ other' = SensorDataCollection_clean(other).data
    /\ last' = [op |-> "clean", exc |-> SensorDataCollection_clean(other).exc]
    /\ UNCHANGED <<data, nsets>>
    /\ UNCHANGED parserVars
    /\ UNCHANGED clientVars

NextEq ==
    \/ EqSetData
    \/ EqSetOther
    \/ EqCleanData
    \/ EqCleanOther

SpecEq == InitEq /\ [][NextEq]_vars

\* ------------------------------------------------- claims: the containers
\* The rows of a channel, each with its timestamp.
Pairs(sd) == [i \in 1..Len(sd.values) |-> <<sd.values[i], sd.timestamps[i]>>]

\* The rows of a sequence of pairs that have no unset column, in order.
RECURSIVE FullRows(_)
FullRows(ps) ==
    IF ps = <<>> THEN <<>>
    ELSE (IF RowHasNan(Head(ps)[1]) THEN <<>> ELSE <<Head(ps)>>) \o FullRows(Tail(ps))

\* C12: SensorDataCollection.clean() returns, and afterwards no channel of
\* the collection has a row with an unset column while every row that was
\* fully set is still there: each channel holds exactly its own fully set
\* rows, whatever the other channels hold.
C12_CleanRemovesUnsetRows ==
    [][DataClean =>
          /\ last'.exc = "none"
          /\ \A ch \in Channels :
                /\ \A i \in 1..Len(data'[ch].values) : ~RowHasNan(data'[ch].values[i])
                /\ data'[ch].values = [i \in 1..Len(FullRows(Pairs(data[ch])))
                                          |-> FullRows(Pairs(data[ch]))[i][1]]]_vars

\* a is b with some elements left out (the others in their order).
RECURSIVE IsSubseq(_, _)
IsSubseq(a, b) ==
    IF a = <<>> THEN TRUE
    ELSE IF b = <<>> THEN FALSE
    ELSE IF Head(a) = Head(b) THEN IsSubseq(Tail(a), Tail(b))
    ELSE IsSubseq(a, Tail(b))

LenEq(d) == \A ch \in Channels : Len(d[ch].values) = Len(d[ch].timestamps)

\* A set that returned wrote row and timestamp at index n of the channel and
\* left the other rows as they were.
SetWroteRow(before, after, smp, n) ==
    /\ Len(after.values) = Len(before.values)
    /\ \A j \in 1..Len(before.values) :
          IF j = PyIndex(n, Len(before.values))
          THEN /\ after.values[j] = RowOf(smp[1], before.elements).row
               /\ after.timestamps[j] = smp[2]
          ELSE /\ after.values[j] = before.values[j]
               /\ after.timestamps[j] = before.timestamps[j]

C14_CleanIdempotent ==
    last = [op |-> "clean", exc |-> "none"]
        => SensorDataCollection_clean(data) = [exc |-> "none", data |-> data]

\* Every value and every timestamp of the channel is unset.
AllUnset(sd) ==
    /\ \A i \in 1..Len(sd.values) : \A j \in 1..sd.elements : isnan(sd.values[i][j])
    /\ \A i \in 1..Len(sd.timestamps) : isnan(sd.timestamps[i])

SameLength(a, b) == Len(a.values) = Len(b.values) /\ Len(a.timestamps) = Len(b.timestamps)

\* C15: == of collections and of channels is reflexive (a collection or a
\* channel equals itself, unset entries included) and symmetric (a == b
\* exactly when b == a), and two independently built channels of the same
\* sensor, or collections, of the same capacity that are entirely unset are
\* equal.
C15_EqReflexiveSymmetric ==
    /\ SensorDataCollection_eq(data, data)
    /\ SensorDataCollection_eq(other, other)
    /\ SensorDataCollection_eq(data, other) <=> SensorDataCollection_eq(other, data)
    /\ \A c1 \in Channels :
          /\ SensorData_eq(data[c1], data[c1])
          /\ SensorData_eq(other[c1], other[c1])
          /\ \A c2 \in Channels :
                SensorData_eq(data[c1], other[c2]) <=> SensorData_eq(other[c2], data[c1])
          /\ (AllUnset(data[c1]) /\ AllUnset(other[c1]) /\ SameLength(data[c1], other[c1]))
                => SensorData_eq(data[c1], other[c1])
    /\ (\A ch \in Channels :
            AllUnset(data[ch]) /\ AllUnset(other[ch]) /\ SameLength(data[ch], other[ch]))
          => SensorDataCollection_eq(data, other)

\* Two collections of two rows, each with the same sample set in the first
\* row of acc and the other rows unset, compared.
C15_Witness ==
    /\ nsets = 2
    /\ Pairs(data["acc"]) = << <<V3(1).xs, F(1)>>, <<Sca(NaN).xs \o Sca(NaN).xs \o Sca(NaN).xs, NaN>> >>
    /\ Pairs(other["acc"]) = Pairs(data["acc"])
    /\ SensorDataCollection_eq(data, other)
    /\ SensorDataCollection_eq(other, data)

\* C16: two collections are == exactly when in every one of the eleven
\* channels their values and their timestamps agree element by element
\* (unset agreeing with unset).
C16_EqIffAllChannelsEqual ==
    SensorDataCollection_eq(data, other)
        <=> \A ch \in Channels :
               /\ values_array_equal(data[ch].values, data[ch].elements,
                                     other[ch].values, other[ch].elements)
               /\ timestamps_array_equal(data[ch].timestamps, other[ch].timestamps)

\* C18: a set() with a row index outside [0, capacity), every negative index
\* included, raises and leaves values and timestamps of the channel as they
\* were (stated for values that fit a row of the channel).
C18_SetOutOfRangeFails ==
    [][\A ch \in SetChannels : \A smp \in Samples(ch) :
          \A n \in Indices(Len(data[ch].timestamps)) :
             (/\ DataSetOp(ch, smp, n)
              /\ RowOf(smp[1], Elements(ch)).ok
              /\ (n < 0 \/ n >= Len(data[ch].timestamps)))
                => (last'.exc # "none" /\ data' = data)]_vars

\* C19: the summary of a non-empty channel says "with timestamps" only if
\* every row of the channel has a timestamp (and as many timestamps as
\* values); a channel with a row without timestamp is summarised as
\* "without timestamps" (stated for channels all of whose rows are set).
C19_ReprTimestampsOnlyIfAllSet ==
    \A ch \in Channels :
        (length(data[ch]) > 0 /\ \A i \in 1..length(data[ch]) : ~RowHasNan(data[ch].values[i])) =>
            (SensorData_repr(data[ch]) = "with timestamps"
                <=> /\ \A i \in 1..Len(data[ch].timestamps) : ~isnan(data[ch].timestamps[i])
                    /\ Len(data[ch].timestamps) = length(data[ch]))

\* ------------------------------------------- claims: the parser, continued
\* What _parse_sample makes of field `field` of entry e, for a channel of
\* `elements` columns: value and timestamp of a field that is present, the
\* value and an unset timestamp when the field has no timestamp, unset and
\* unset for an absent field; a vector keeps its three components and a
\* scalar stays one number.
SampleExtracted(e, field, elements) ==
    LET vt == parse_sample(entry_get(e, field))
    IN  IF field \in DOMAIN e.members
        THEN /\ vt[1] = e.members[field].value
             /\ vt[2] = (IF e.members[field].has_ts THEN e.members[field].timestamp ELSE NaN)
             /\ e.members[field].has_ts => ~isnan(vt[2])
             /\ vt[1].scalar <=> elements = 1
             /\ Len(vt[1].xs) = elements
             /\ \A k \in 1..elements : ~isnan(vt[1].xs[k])
        ELSE /\ vt[1] = Sca(NaN)
             /\ vt[2] = NaN

\* C17: for every entry a call decoded and every one of the eleven fields,
\* _parse_sample yields (value, timestamp), (value, unset) or (unset, unset)
\* as the field is present with a timestamp, present without one, or absent.
C17_SampleExtraction ==
    /\ \A i \in 1..Len(calls) : \A j \in 1..Len(calls[i].json_entries) :
          \A k \in 1..Len(SetOrder) :
             SampleExtracted(calls[i].json_entries[j], SetOrder[k][2], Elements(SetOrder[k][1]))
    /\ \A i \in 1..Len(whole) : \A j \in 1..Len(whole[i].json_entries) :
          \A k \in 1..Len(SetOrder) :
             SampleExtracted(whole[i].json_entries[j], SetOrder[k][2], Elements(SetOrder[k][1]))

\* One call decoded a frame with an accelerometer sample that has a
\* timestamp and a frame with a light sample that has none.
C17_Witness ==
    /\ whole # <<>>
    /\ Len(whole[1].json_entries) = 2
    /\ parse_sample(entry_get(whole[1].json_entries[1], "accelerometer")) = <<V3(0), F(0)>>
    /\ parse_sample(entry_get(whole[1].json_entries[2], "light")) = <<S1(6), NaN>>
    /\ parse_sample(entry_get(whole[1].json_entries[2], "gravity")) = <<Sca(NaN), NaN>>

\* The entries decoded by a sequence of calls, one call after the other.
RECURSIVE AllEntries(_)
AllEntries(cs) ==
    IF cs = <<>> THEN <<>> ELSE Head(cs).json_entries \o AllEntries(Tail(cs))

\* The part of text fed so far.
Fed == SubSeq(text, 1, pos)

\* C20: however the text is cut into chunks, the entries decoded by the calls
\* so far, taken together in order, are the decoded terminated lines of the
\* text fed so far (none twice, none left out, none before its terminator
\* was fed), and the buffer is the text after the last terminator fed; once
\* the whole text is fed, entries and buffer are those of the single call on
\* the whole text.
C20_ChunkingIndependent ==
    /\ AllEntries(calls) = DecodeLines(Front(split(Fed, LF)))
    /\ input_buffer = Last(split(Fed, LF))
    /\ (pos = Len(text) /\ whole # <<>> /\ calls # <<>>) =>
          /\ AllEntries(calls) = whole[1].json_entries
          /\ input_buffer = whole[1].input_buffer

\* A line that arrived over three calls is decoded by the third, which
\* completes the text.
C20_Witness ==
    /\ Len(calls) = 3
    /\ pos = Len(text)
    /\ calls[1].chunk # <<>>
    /\ calls[1].json_entries = <<>>
    /\ calls[2].chunk # <<>>
    /\ calls[2].json_entries = <<>>
    /\ calls[3].json_entries # <<>>

\* The number of lines of a call that decode.
NumDecoded(lines) == Cardinality({j \in 1..Len(lines) : json_loads(lines[j]).ok})

\* The calls made on either parser.
AllCalls == {calls[i] : i \in 1..Len(calls)} \cup {whole[i] : i \in 1..Len(whole)}

\* C21: in every call of the SensorStreamer parser the collection is
\* allocated with as many rows, in every channel, as lines of the call
\* decoded (a line that fails to decode has no row), and every set() call
\* of the batch construction passes a row index n with 0 <= n < capacity
\* and does not raise IndexError.
C21_SetIndicesInRange ==
    \A c \in AllCalls :
        kind = "SensorStreamerParser" =>
            LET decoded == NumDecoded(c.lines_to_parse)
                made == NewCollection(c.json_entries)
                sets == SetCalls(c.json_entries)
            IN  /\ Len(c.json_entries) = decoded
                /\ \A ch \in Channels :
                      /\ Len(made[ch].values) = decoded
                      /\ Len(made[ch].timestamps) = decoded
                /\ \A i \in 1..Len(sets) :
                      /\ sets[i].capacity = decoded
                      /\ 0 <= sets[i].n
                      /\ sets[i].n < sets[i].capacity
                      /\ sets[i].exc # "IndexError"

\* One call took three lines, the second of them not JSON: two rows were
\* allocated and all eleven channels were set at row 0 and at row 1.
C21_Witness ==
    /\ whole # <<>>
    /\ Len(whole[1].lines_to_parse) = 3
    /\ ~json_loads(whole[1].lines_to_parse[2]).ok
    /\ Len(whole[1].json_entries) = 2
    /\ Len(SetCalls(whole[1].json_entries)) = 22
    /\ SetCalls(whole[1].json_entries)[22].n = 1
    /\ SetCalls(whole[1].json_entries)[22].capacity = 2

\* The lines a sequence of calls failed to decode, counted.
RECURSIVE FailedIn(_)
FailedIn(cs) ==
    IF cs = <<>> THEN 0 ELSE CountFailed(Head(cs).lines_to_parse) + FailedIn(Tail(cs))

\* C22: two parsers that differ only in silent_warnings and are fed the same
\* chunks return the same result from every call and hold the same buffer
\* after every call; the flag decides only whether the warnings are made
\* (the silenced parser makes none, the other one per line that fails to
\* decode).
C22_SilencingOnlySilences ==
    /\ Len(twin_calls) = Len(calls)
    /\ twin_buffer = input_buffer
    /\ \A i \in 1..Len(calls) :
          /\ twin_calls[i].chunk = calls[i].chunk
          /\ twin_calls[i].before = calls[i].before
          /\ twin_calls[i].ret = calls[i].ret
          /\ twin_calls[i].input_buffer = calls[i].input_buffer
          /\ twin_calls[i].json_entries = calls[i].json_entries
    /\ (IF silent_warnings THEN warnings ELSE twin_warnings) = 0
    /\ (IF silent_warnings THEN twin_warnings ELSE warnings) = FailedIn(calls)

\* Both parsers were fed twice; a line failed to decode, so one of them
\* warned and the other did not, and a partial line is carried over.
C22_Witness ==
    /\ Len(calls) = 2
    /\ Len(twin_calls) = 2
    /\ calls[1].chunk # <<>>
    /\ FailedIn(calls) > 0
    /\ warnings # twin_warnings
    /\ calls[2].json_entries # <<>>
    /\ input_buffer # <<>>
    /\ twin_buffer # <<>>

\* ------------------------------------- claims: the standalone client
\* A read that found the socket readable and received the empty chunk.
ZeroByteRead == sock = "connected" /\ select_ready(rx, peerClosed) /\ Main_recv(rx) = <<>>

\* C23: a __next__ of the client of main.py on its connected socket raises
\* the connection-closed RuntimeError exactly when the chunk received is
\* empty and the buffer is empty, and then returns nothing; a zero-byte read
\* while the buffer holds a partial line raises nothing, returns an empty
\* SensorDataCollection and leaves buffer, socket and received text as they
\* were, so that the next read meets the same state.
C23_ClosedOnlyWhenNothingLeft ==
    [][(Main_NextBatch /\ sock = "connected") =>
          /\ step'.out = Raise("RuntimeError") <=> (ZeroByteRead /\ input_buffer = <<>>)
          /\ step'.out = Raise("RuntimeError") => yielded' = yielded
          /\ (ZeroByteRead /\ input_buffer # <<>>) =>
                /\ step'.out = RetData(Main_SensorDataCollection(0))
                /\ yielded' = Append(yielded, RetData(Main_SensorDataCollection(0)))
                /\ input_buffer' = input_buffer
                /\ rx' = rx
                /\ peerClosed' = peerClosed
                /\ sock' = sock]_vars

\* The device closed after sending a partial line; the last two reads
\* received nothing and each returned an empty collection, the buffer
\* still holding the partial line.
C23_Witness ==
    /\ step.n >= 2
    /\ Len(calls) >= 2
    /\ Len(yielded) >= 2
    /\ peerClosed
    /\ sock = "connected"
    /\ rx = <<>>
    /\ input_buffer # <<>>
    /\ \A i \in {Len(calls) - 1, Len(calls)} :
          /\ calls[i].chunk = <<>>
          /\ calls[i].before = input_buffer
          /\ calls[i].input_buffer = input_buffer
          /\ calls[i].ret = RetData(Main_SensorDataCollection(0))
    /\ yielded[Len(yielded) - 1] = RetData(Main_SensorDataCollection(0))
    /\ yielded[Len(yielded)] = RetData(Main_SensorDataCollection(0))

=============================================================================
